---------------------------- MODULE Spec2Model ----------------------------
(***************************************************************************)
(* Tick bitmap index of the cyclos/cykura core program.                    *)
(*                                                                         *)
(* programs/core/src/states/tick_bitmap.rs:                                *)
(*   get_tick_div_spacing, get_word_and_bit_pos   (tick address codec)     *)
(*   TickBitmapState::{decode_bitmap, flip_tick,                           *)
(*                     next_initialized_tick_within_one_word}              *)
(* programs/cyclos-protocol-v2/src/lib.rs:                                 *)
(*   enable_fee_amount, set_fee_protocol        (factory and pool owner)   *)
(*                                                                         *)
(* Representation.  A u128 is the set of the indices (0..127) of its 1     *)
(* bits: 0 is {}, 1 << n is {n}, 2^127 is {127}, xor is the symmetric      *)
(* difference.  A Bitmap<256> is the set of its true indices (0..255);     *)
(* index i lives in word i / 128 at bit i % 128 of the [u128; 2] store.    *)
(* i32, i16 and u8 values are integers kept in their width by the          *)
(* operators below.                                                        *)
(*                                                                         *)
(* Rust arithmetic on u8/i16/i32 that leaves the type's range panics in a  *)
(* build with overflow checks and wraps in a build without them; which of  *)
(* the two the program is built with is the variable overflow_checks.      *)
(***************************************************************************)
EXTENDS Integers, FiniteSets, Sequences, TLC

VARIABLES
    tb_state,         \* the TickBitmapState account
    overflow_checks,  \* whether the build panics on integer overflow
    call,             \* the last call made and what it returned
    flips,            \* number of flip_tick calls so far
    arg,              \* the arguments a codec function is called with
    fee_state,        \* ctx.accounts.fee_state of enable_fee_amount
    pool_state        \* ctx.accounts.pool_state of set_fee_protocol

vars == <<tb_state, overflow_checks, call, flips, arg, fee_state, pool_state>>

---------------------------------------------------------------------------
(* Bounds of the model *)

\* flip_tick calls in one behaviour
MaxFlips == 3
\* flip_tick positions are drawn from the EdgeWidth lowest and highest bits
\* of each 128-bit half, search starts from those, their neighbours and 10
EdgeWidth == 2
\* get_tick_div_spacing inputs: |tick| <= MaxTick, |spacing| <= MaxSpacing
MaxTick == 40
MaxSpacing == 12
\* get_word_and_bit_pos inputs: within TdsWindow of 0, of -429772, of 429772
TdsWindow == 520

---------------------------------------------------------------------------
(* Program constants *)

\* assert!(tick_div_spacing >= -429772 && tick_div_spacing <= 429772)
TickDivSpacingLimit == 429772
\* bits in one u128 of `bitmap: [u128; 2]`
WordBits == 128
\* Bitmap<256>
BitmapSize == 256
\* u8, u16
U8Max == 255
U16Max == 65535

\* if fee > 1_000_000
FeeMax == 1000000
\* if tick_spacing > 16384
TickSpacingMax == 16384

I32Max == 2147483647
I32Min == -2147483647 - 1
I16Min == -32768
I16Max == 32767

U8 == 0..U8Max

---------------------------------------------------------------------------
(* Results of a call: a panic, or a value, and whether an arithmetic       *)
(* operation left its type's range on the way (it then wrapped).           *)

Panic(why) == [panic |-> TRUE, why |-> why, overflow |-> FALSE, val |-> <<>>]
Ok(v) == [panic |-> FALSE, why |-> "", overflow |-> FALSE, val |-> v]
Wrapped(v) == [panic |-> FALSE, why |-> "", overflow |-> TRUE, val |-> v]

---------------------------------------------------------------------------
(* Rust integer operators *)

\* a % b of i32, b # 0 and not (a = i32::MIN and b = -1): the remainder has
\* the sign of the dividend
RemI32(a, b) ==
    LET d == IF b < 0 THEN -b ELSE b
        m == a % d
    IN  IF m = 0 \/ a >= 0 THEN m ELSE m - d

\* a / b of i32, same domain: the quotient is truncated towards zero
DivI32(a, b) ==
    LET d == IF b < 0 THEN -b ELSE b
        f == a \div d
        q == IF a % d # 0 /\ a < 0 THEN f + 1 ELSE f
    IN  IF b < 0 THEN -q ELSE q

\* a >> n of i32: arithmetic shift
ShrI32(a, n) == a \div (2 ^ n)

\* a ^ b of two's complement integers
RECURSIVE XorI32(_, _)
XorI32(a, b) ==
    IF a \in {0, -1} /\ b \in {0, -1}
    THEN (IF a = b THEN 0 ELSE -1)
    ELSE 2 * XorI32(a \div 2, b \div 2) + (IF (a % 2) = (b % 2) THEN 0 ELSE 1)

\* x as i16, x as u8
AsI16(x) == ((x - I16Min) % (I16Max - I16Min + 1)) + I16Min
AsU8(x) == x % (U8Max + 1)

---------------------------------------------------------------------------
(* Tick address codec *)

\* The same without the alignment assertion
get_tick_div_spacing_unchecked(tick, spacing) ==
    IF spacing = 0 THEN Panic("remainder by zero")
    ELSE IF tick = I32Min /\ spacing = -1 THEN Panic("remainder overflow")
    ELSE Ok(DivI32(tick, spacing))

get_tick_div_spacing(tick, spacing) ==
    IF spacing = 0 THEN Panic("remainder by zero")
    ELSE IF tick = I32Min /\ spacing = -1 THEN Panic("remainder overflow")
    ELSE IF RemI32(tick, spacing) # 0 THEN Panic("assert_eq")
    ELSE Ok(DivI32(tick, spacing))

\* What follows the range assertion.  `%` binds tighter than `^`:
\* (tick_div_spacing >> 8) % 2 ^ 15 is ((tick_div_spacing >> 8) % 2) ^ 15.
word_and_bit_pos(tick_div_spacing, checks) ==
    LET word_pos_0 == AsI16(XorI32(RemI32(ShrI32(tick_div_spacing, 8), 2), 15))
        neg_overflow == tick_div_spacing < 0 /\ word_pos_0 = I16Min
        word_pos == IF tick_div_spacing < 0
                    THEN (IF neg_overflow THEN I16Min ELSE -word_pos_0)
                    ELSE word_pos_0
        abs_overflow == tick_div_spacing = I32Min
        abs == IF abs_overflow THEN I32Min
               ELSE IF tick_div_spacing < 0 THEN -tick_div_spacing
               ELSE tick_div_spacing
        bit_pos == AsU8(XorI32(RemI32(abs, 2), 8))
    IN  IF neg_overflow /\ checks THEN Panic("attempt to negate with overflow")
        ELSE IF abs_overflow /\ checks THEN Panic("abs overflow")
        ELSE IF neg_overflow \/ abs_overflow THEN Wrapped(<<word_pos, bit_pos>>)
        ELSE Ok(<<word_pos, bit_pos>>)

\* The same with the range assertion excluding its endpoints
get_word_and_bit_pos_open(tick_div_spacing, checks) ==
    IF ~(tick_div_spacing > -TickDivSpacingLimit
         /\ tick_div_spacing < TickDivSpacingLimit)
    THEN Panic("assert")
    ELSE word_and_bit_pos(tick_div_spacing, checks)

get_word_and_bit_pos(tick_div_spacing, checks) ==
    IF ~(tick_div_spacing >= -TickDivSpacingLimit
         /\ tick_div_spacing <= TickDivSpacingLimit)
    THEN Panic("assert")
    ELSE word_and_bit_pos(tick_div_spacing, checks)

---------------------------------------------------------------------------
(* Tick bitmap record *)

Word == 0..(WordBits - 1)

\* 1 << n of u128, n < 128
Shl1(n) == {n}

\* Bitmap::<256>::from_value / from: the true indices of a [u128; 2]
from_value(value) == value[1] \cup {i + WordBits : i \in value[2]}

\* Bitmap::as_value: the [u128; 2] of a bitmap
as_value(bm) ==
    <<{i \in bm : i < WordBits}, {i - WordBits : i \in {j \in bm : j >= WordBits}}>>

decode_bitmap(self) == from_value(self.bitmap)

\* Bitmap::get
get(bm, index) == index \in bm

\* Bitmap::len of the bitmaps crate: the number of true bits (not the size,
\* 256, whose `as u8` would be 0 for every record)
len(bm) == Cardinality(bm)

\* Bitmap::bitxor
bitxor(bm, mask) == (bm \ mask) \cup (mask \ bm)

\* flip_tick's mask
flip_mask(bit_pos) ==
    from_value(IF bit_pos < WordBits
               THEN <<Shl1(bit_pos), {}>>
               ELSE <<{}, Shl1(bit_pos - WordBits)>>)

\* flip_tick with bitor (decode_bitmap(self) \cup mask) in place of bitxor
flip_tick_bitor(self, bit_pos) ==
    [self EXCEPT !.bitmap = as_value(decode_bitmap(self) \cup flip_mask(bit_pos))]

\* flip_tick with the two halves of the mask exchanged
flip_tick_swapped(self, bit_pos) ==
    LET mask == from_value(IF bit_pos < WordBits
                           THEN <<{}, Shl1(bit_pos)>>
                           ELSE <<Shl1(bit_pos - WordBits), {}>>)
    IN  [self EXCEPT !.bitmap = as_value(bitxor(decode_bitmap(self), mask))]

flip_tick(self, bit_pos) ==
    [self EXCEPT !.bitmap = as_value(bitxor(decode_bitmap(self), flip_mask(bit_pos)))]

\* `for i in lo..=hi { if bitmap.get(i) { return i } }`: the first true index
\* of the ascending range, -1 when the loop ends without returning
RECURSIVE first_set(_, _, _)
first_set(bm, lo, hi) ==
    IF lo > hi THEN -1
    ELSE IF get(bm, lo) THEN lo
    ELSE first_set(bm, lo + 1, hi)

next_initialized_tick_within_one_word(self, current_bit_pos, lte, checks) ==
    LET bitmap == decode_bitmap(self)
    IN  IF lte
        THEN \* for i in current_bit_pos..=0
             LET i == first_set(bitmap, current_bit_pos, 0)
             IN  IF i >= 0 THEN Ok(<<i, TRUE>>) ELSE Ok(<<0, FALSE>>)
        ELSE \* for i in (current_bit_pos + 1)..(bitmap.len() as u8)
             LET add_overflow == current_bit_pos + 1 > U8Max
                 start == AsU8(current_bit_pos + 1)
                 end == AsU8(len(bitmap))
                 i == first_set(bitmap, start, end - 1)
                 sub_overflow == end - 1 < 0
                 last == AsU8(end - 1)
             IN  IF add_overflow /\ checks THEN Panic("attempt to add with overflow")
                 ELSE IF i >= 0
                      THEN (IF add_overflow THEN Wrapped(<<i, TRUE>>) ELSE Ok(<<i, TRUE>>))
                 ELSE IF sub_overflow /\ checks
                      THEN Panic("attempt to subtract with overflow")
                 ELSE IF add_overflow \/ sub_overflow THEN Wrapped(<<last, FALSE>>)
                 ELSE Ok(<<last, FALSE>>)

---------------------------------------------------------------------------
(* State machine *)

\* TickBitmapState::default(), at the address of one 256 tick window
DefaultState(key) ==
    [bump |-> 0, token_0 |-> "11111111", token_1 |-> "11111111",
     fee |-> "11111111", left_16_bits_of_tick |-> key, bitmap |-> <<{}, {}>>]

NoCall == [op |-> "none"]
NoArg == [fn |-> "none", a |-> 0, b |-> 0]

\* a fee state account before enable_fee_amount has written it
EmptyFeeState == [bump |-> 0, fee |-> 0, tick_spacing |-> 0]

\* the pool state create_pool leaves: unlocked, protocol fee initially 0
CreatedPoolState == [fee_protocol |-> 0, unlocked |-> TRUE]

Init ==
    /\ tb_state \in {DefaultState(key) : key \in {0, U16Max}}
    /\ overflow_checks \in BOOLEAN
    /\ call = NoCall
    /\ flips = 0
    /\ arg = NoArg
    /\ fee_state = EmptyFeeState
    /\ pool_state = CreatedPoolState

FlipPositions ==
    {p \in U8 : p % WordBits < EdgeWidth \/ p % WordBits >= WordBits - EdgeWidth}

StartPositions ==
    {p \in U8 : p % WordBits <= EdgeWidth \/ p % WordBits >= WordBits - EdgeWidth - 1}
    \cup {10}

\* tb_state.flip_tick(bit_pos)
FlipTick(bit_pos) ==
    /\ flips < MaxFlips
    /\ tb_state' = flip_tick(tb_state, bit_pos)
    /\ flips' = flips + 1
    /\ LET again == call.op = "flip_tick" /\ call.bit_pos = bit_pos
       IN  call' = [op |-> "flip_tick", bit_pos |-> bit_pos, pre |-> tb_state,
                    twice |-> again,
                    pre2 |-> IF again THEN call.pre ELSE tb_state]
    /\ UNCHANGED <<overflow_checks, arg, fee_state, pool_state>>

\* tb_state.next_initialized_tick_within_one_word(current_bit_pos, lte)
NextInitializedTick(current_bit_pos, lte) ==
    /\ call' = [op |-> "next_initialized_tick_within_one_word",
                current_bit_pos |-> current_bit_pos, lte |-> lte,
                ret |-> next_initialized_tick_within_one_word(
                            tb_state, current_bit_pos, lte, overflow_checks)]
    /\ UNCHANGED <<tb_state, overflow_checks, flips, arg, fee_state, pool_state>>

Next ==
    \/ \E bit_pos \in FlipPositions : FlipTick(bit_pos)
    \/ \E current_bit_pos \in StartPositions, lte \in BOOLEAN :
           NextInitializedTick(current_bit_pos, lte)

Spec == Init /\ [][Next]_vars

---------------------------------------------------------------------------
(* The codec functions applied to arguments drawn from bounded sets *)

TickInputs == (-MaxTick..MaxTick) \cup {I32Min, I32Max}
SpacingInputs == -MaxSpacing..MaxSpacing

TickDivSpacingInputs ==
    (-TdsWindow..TdsWindow)
    \cup ((TickDivSpacingLimit - TdsWindow)..(TickDivSpacingLimit + TdsWindow))
    \cup ((-TickDivSpacingLimit - TdsWindow)..(-TickDivSpacingLimit + TdsWindow))
    \cup {500000, -500000, I32Min, I32Max}

CodecInputs ==
    {[fn |-> "get_tick_div_spacing", a |-> tick, b |-> spacing] :
        tick \in TickInputs, spacing \in SpacingInputs}
    \cup {[fn |-> "get_word_and_bit_pos", a |-> tick_div_spacing, b |-> 0] :
        tick_div_spacing \in TickDivSpacingInputs}

InitCodec ==
    /\ tb_state = DefaultState(0)
    /\ overflow_checks \in BOOLEAN
    /\ call = NoCall
    /\ flips = 0
    /\ arg \in CodecInputs
    /\ fee_state = EmptyFeeState
    /\ pool_state = CreatedPoolState

\* get_tick_div_spacing(tick, spacing)
GetTickDivSpacing ==
    /\ arg.fn = "get_tick_div_spacing"
    /\ call' = [op |-> "get_tick_div_spacing", tick |-> arg.a, spacing |-> arg.b,
                ret |-> get_tick_div_spacing(arg.a, arg.b)]
    /\ UNCHANGED <<tb_state, overflow_checks, flips, arg, fee_state, pool_state>>

\* get_word_and_bit_pos(tick_div_spacing)
GetWordAndBitPos ==
    /\ arg.fn = "get_word_and_bit_pos"
    /\ call' = [op |-> "get_word_and_bit_pos", tick_div_spacing |-> arg.a,
                ret |-> get_word_and_bit_pos(arg.a, overflow_checks)]
    /\ UNCHANGED <<tb_state, overflow_checks, flips, arg, fee_state, pool_state>>

NextCodec ==
    \/ GetTickDivSpacing
    \/ GetWordAndBitPos

SpecCodec == InitCodec /\ [][NextCodec]_vars

---------------------------------------------------------------------------
(* Factory and pool owner instructions.  An instruction that returns Err   *)
(* or panics aborts the transaction: the accounts keep the values they had *)
(* before it.                                                              *)

\* Err(ErrorCode::code.into())
Err(code) == [panic |-> FALSE, why |-> code, overflow |-> FALSE, val |-> <<>>]

\* Ok(()), possibly after a wrapped addition
Succeeded(ret) == ~ret.panic /\ ret.why = ""

enable_fee_amount(state, fee, tick_spacing, fee_bump) ==
    IF fee > FeeMax
    THEN [ret |-> Err("FeeLimit"), fee_state |-> state]
    ELSE IF tick_spacing > TickSpacingMax
    THEN [ret |-> Err("TickSpacingLimit"), fee_state |-> state]
    ELSE [ret |-> Ok(<<>>),
          fee_state |-> [bump |-> fee_bump, fee |-> fee, tick_spacing |-> tick_spacing]]

FeeInputs == {FeeMax, FeeMax + 1}
TickSpacingInputs == {0, 1, TickSpacingMax, TickSpacingMax + 1}

\* enable_fee_amount(ctx, fee, tick_spacing, fee_bump)
EnableFeeAmount(fee, tick_spacing, fee_bump) ==
    LET r == enable_fee_amount(fee_state, fee, tick_spacing, fee_bump)
    IN  /\ fee_state' = r.fee_state
        /\ call' = [op |-> "enable_fee_amount", fee |-> fee,
                    tick_spacing |-> tick_spacing, fee_bump |-> fee_bump,
                    pre |-> fee_state, ret |-> r.ret]
        /\ UNCHANGED <<tb_state, overflow_checks, flips, arg, pool_state>>

\* The message is logged when both arguments are 0 or in 4..10, and nothing
\* returns; (fee_protocol_1 << 4) drops the bits shifted out of the u8, the
\* addition of fee_protocol_0 can leave the u8 range.
set_fee_protocol(state, fee_protocol_0, fee_protocol_1, checks) ==
    LET logged == /\ (fee_protocol_0 = 0 \/ (fee_protocol_0 >= 4 /\ fee_protocol_0 <= 10))
                  /\ (fee_protocol_1 = 0 \/ (fee_protocol_1 >= 4 /\ fee_protocol_1 <= 10))
        fee_protocol_old == state.fee_protocol
        sum == AsU8(fee_protocol_1 * 16) + fee_protocol_0
        event == [fee_protocol_0_old |-> fee_protocol_old % 16,
                  fee_protocol_1_old |-> fee_protocol_old \div 16,
                  fee_protocol_0 |-> fee_protocol_0,
                  fee_protocol_1 |-> fee_protocol_1]
        none == [fee_protocol_0_old |-> 0, fee_protocol_1_old |-> 0,
                 fee_protocol_0 |-> 0, fee_protocol_1 |-> 0]
    IN  IF ~state.unlocked
        THEN [ret |-> Err("Locked"), pool_state |-> state, logged |-> FALSE,
              event |-> none]
        ELSE IF sum > U8Max /\ checks
        THEN [ret |-> Panic("attempt to add with overflow"), pool_state |-> state,
              logged |-> logged, event |-> none]
        ELSE [ret |-> IF sum > U8Max THEN Wrapped(<<>>) ELSE Ok(<<>>),
              pool_state |-> [fee_protocol |-> AsU8(sum), unlocked |-> TRUE],
              logged |-> logged, event |-> event]

FeeProtocolInputs == {0, 1, 4, 10, 11, 16, U8Max}

\* set_fee_protocol(ctx, fee_protocol_0, fee_protocol_1)
SetFeeProtocol(fee_protocol_0, fee_protocol_1) ==
    LET r == set_fee_protocol(pool_state, fee_protocol_0, fee_protocol_1,
                              overflow_checks)
    IN  /\ pool_state' = r.pool_state
        /\ call' = [op |-> "set_fee_protocol", fee_protocol_0 |-> fee_protocol_0,
                    fee_protocol_1 |-> fee_protocol_1, pre |-> pool_state,
                    ret |-> r.ret, logged |-> r.logged, event |-> r.event]
        /\ UNCHANGED <<tb_state, overflow_checks, flips, arg, fee_state>>

NextFees ==
    \/ \E fee \in FeeInputs, tick_spacing \in TickSpacingInputs :
           EnableFeeAmount(fee, tick_spacing, U8Max)
    \/ \E fee_protocol_0 \in FeeProtocolInputs, fee_protocol_1 \in FeeProtocolInputs :
           SetFeeProtocol(fee_protocol_0, fee_protocol_1)

SpecFees == Init /\ [][NextFees]_vars


---------------------------------------------------------------------------
(* Properties *)

SearchCall == call.op = "next_initialized_tick_within_one_word"
FlipCall == call.op = "flip_tick"
ZeroBitmap == <<{}, {}>>

\* is_set(record, b): bit b of the record's 256-bit value
is_set(record, b) ==
    IF b < WordBits THEN b \in record.bitmap[1] ELSE (b - WordBits) \in record.bitmap[2]

Greatest(S) == CHOOSE p \in S : \A q \in S : q <= p
Smallest(S) == CHOOSE p \in S : \A q \in S : p <= q

InRange(t) == t >= -TickDivSpacingLimit /\ t <= TickDivSpacingLimit

\* C1: for every tick_div_spacing in [-429772, 429772], get_word_and_bit_pos
\* returns (WordKey, BitPosition) with BitPosition in [0, 255] and
\* WordKey * 256 + BitPosition = tick_div_spacing, so that no other in-range
\* value maps to the same pair.
C1_LocateReconstructs ==
    (call.op = "get_word_and_bit_pos" /\ InRange(call.tick_div_spacing)) =>
        /\ ~call.ret.panic
        /\ call.ret.val[2] \in 0..(BitmapSize - 1)
        /\ call.ret.val[1] * BitmapSize + call.ret.val[2] = call.tick_div_spacing
        /\ \A other \in {t \in TickDivSpacingInputs : InRange(t)} :
               other # call.tick_div_spacing =>
                   get_word_and_bit_pos(other, overflow_checks).val # call.ret.val

\* C2: the left-inclusive search (lte = true) from start_bit returns (p, true)
\* with p the greatest set position <= start_bit, and (0, false) exactly when
\* no position in [0, start_bit] is set.
C2_SearchLeftInclusive ==
    (SearchCall /\ call.lte) =>
        LET S == {p \in 0..call.current_bit_pos : is_set(tb_state, p)}
        IN  /\ ~call.ret.panic
            /\ call.ret.val = IF S = {} THEN <<0, FALSE>> ELSE <<Greatest(S), TRUE>>

\* C3: the right-exclusive search (lte = false) from start_bit returns (p, true)
\* with p the smallest set position in (start_bit, 255], and (255, false)
\* exactly when none of those is set; start_bit itself is never reported.
C3_SearchRightExclusive ==
    (SearchCall /\ ~call.lte) =>
        LET S == {p \in (call.current_bit_pos + 1)..(BitmapSize - 1) : is_set(tb_state, p)}
        IN  /\ ~call.ret.panic
            /\ call.ret.val = IF S = {} THEN <<BitmapSize - 1, FALSE>>
                              ELSE <<Smallest(S), TRUE>>

\* C4: in every record reached from the all-zero record by flip_tick calls, the
\* left-inclusive search started at a set bit b returns (b, true).
C4_SetBitFoundFromItself ==
    (SearchCall /\ call.lte /\ is_set(tb_state, call.current_bit_pos)) =>
        /\ ~call.ret.panic
        /\ call.ret.val = <<call.current_bit_pos, TRUE>>

\* C5: flip_tick(bit_pos) applied twice in a row restores both 128-bit halves
\* of the bitmap.
C5_FlipTwiceRestores ==
    (FlipCall /\ call.twice) =>
        /\ tb_state.bitmap[1] = call.pre2.bitmap[1]
        /\ tb_state.bitmap[2] = call.pre2.bitmap[2]

\* a record with set bits in both halves has had bit 128 flipped twice in a row
C5_Witness ==
    /\ FlipCall /\ call.twice /\ call.bit_pos = WordBits
    /\ call.pre2.bitmap[1] # {}
    /\ 0 \in call.pre.bitmap[2]
    /\ 0 \notin tb_state.bitmap[2]

\* C6: flip_tick(k) toggles exactly bit k mod 128 of half 0 (k < 128) or of
\* half 1 (k >= 128); every other bit of both halves and the record's
\* bump, token_0, token_1, fee and left_16_bits_of_tick are unchanged.
C6_FlipTogglesOneBit ==
    FlipCall =>
        LET k == call.bit_pos
            half == IF k < WordBits THEN 1 ELSE 2
        IN  /\ \A h \in 1..2 : \A b \in Word :
                   ((b \in tb_state.bitmap[h]) # (b \in call.pre.bitmap[h]))
                       <=> (h = half /\ b = k % WordBits)
            /\ tb_state.bump = call.pre.bump
            /\ tb_state.token_0 = call.pre.token_0
            /\ tb_state.token_1 = call.pre.token_1
            /\ tb_state.fee = call.pre.fee
            /\ tb_state.left_16_bits_of_tick = call.pre.left_16_bits_of_tick

\* bit 255 has been set in a record of window 65535 that has bit 127 set
C6_Witness ==
    /\ FlipCall /\ call.bit_pos = U8Max
    /\ call.pre.bitmap = <<{WordBits - 1}, {}>>
    /\ tb_state.bitmap = <<{WordBits - 1}, {WordBits - 1}>>
    /\ tb_state.left_16_bits_of_tick = U16Max

\* C7: next_initialized_tick_within_one_word returns a pair for every record,
\* start_bit and direction: no panic, no arithmetic overflow or underflow.
C7_SearchNeverFails ==
    SearchCall => (~call.ret.panic /\ ~call.ret.overflow)

\* C8: on the all-zero record the right-exclusive search returns (255, false)
\* and the left-inclusive search returns (0, false), from every start_bit.
C8_AllZeroRecord ==
    (SearchCall /\ tb_state.bitmap = ZeroBitmap) =>
        /\ ~call.ret.panic
        /\ call.ret.val = IF call.lte THEN <<0, FALSE>> ELSE <<BitmapSize - 1, FALSE>>

\* C9: for a positive spacing, get_tick_div_spacing fails when tick is not a
\* multiple of spacing and otherwise returns q with q * spacing = tick;
\* tick = 7, spacing = 3 fails.
C9_DivideBySpacing ==
    (call.op = "get_tick_div_spacing" /\ call.spacing > 0) =>
        IF call.tick % call.spacing # 0
        THEN call.ret.panic
        ELSE ~call.ret.panic /\ call.ret.val * call.spacing = call.tick

\* get_tick_div_spacing(7, 3) has failed
C9_Witness ==
    /\ call.op = "get_tick_div_spacing"
    /\ call.tick = 7 /\ call.spacing = 3
    /\ call.ret.panic

\* C10: get_word_and_bit_pos fails for every tick_div_spacing outside
\* [-429772, 429772] and succeeds, with no arithmetic overflow, for every
\* value inside it, both endpoints included.
C10_LocateRange ==
    call.op = "get_word_and_bit_pos" =>
        IF InRange(call.tick_div_spacing)
        THEN ~call.ret.panic /\ ~call.ret.overflow
        ELSE call.ret.panic

\* get_word_and_bit_pos(-429772) has returned a pair
C10_Witness ==
    /\ call.op = "get_word_and_bit_pos"
    /\ call.tick_div_spacing = -TickDivSpacingLimit
    /\ ~call.ret.panic
    /\ call.ret.val \in (I16Min..I16Max) \X U8

\* C11: every tick_spacing a successful enable_fee_amount call stores is in
\* [1, 16384], a valid divisor for get_tick_div_spacing; a call with a
\* tick_spacing outside that range fails and leaves the fee state unchanged.
C11_TickSpacingPositive ==
    call.op = "enable_fee_amount" =>
        /\ Succeeded(call.ret) =>
               /\ fee_state.tick_spacing \in 1..TickSpacingMax
               /\ ~get_tick_div_spacing(0, fee_state.tick_spacing).panic
        /\ call.tick_spacing \notin 1..TickSpacingMax =>
               /\ ~Succeeded(call.ret)
               /\ fee_state = call.pre

ValidFeeProtocol(n) == n = 0 \/ n \in 4..10

\* C12: after any sequence of set_fee_protocol calls on an unlocked pool the
\* low and the high 4 bits of pool_state.fee_protocol are each 0 or in
\* [4, 10] and equal the arguments of the last successful call, and the pool
\* is unlocked; a call with any other argument value does not change it.
C12_FeeProtocolValid ==
    /\ ValidFeeProtocol(pool_state.fee_protocol % 16)
    /\ ValidFeeProtocol(pool_state.fee_protocol \div 16)
    /\ pool_state.unlocked
    /\ call.op = "set_fee_protocol" =>
           /\ Succeeded(call.ret) =>
                  /\ pool_state.fee_protocol % 16 = call.fee_protocol_0
                  /\ pool_state.fee_protocol \div 16 = call.fee_protocol_1
           /\ ~(ValidFeeProtocol(call.fee_protocol_0)
                 /\ ValidFeeProtocol(call.fee_protocol_1)) =>
                  pool_state.fee_protocol = call.pre.fee_protocol

===========================================================================
